---- MODULE Spec2Model ----
(***************************************************************************)
(* A model of sample.py, the script that writes a fixed sample EPUB: it    *)
(* creates the target directory, opens the archive for writing inside a    *)
(* `with` block, writes four entries and leaves the block.                  *)
(*                                                                         *)
(* Every statement may succeed or raise.  The file system (the directory   *)
(* and the archive on disk) outlives a run, and the script may be run      *)
(* again on what an earlier run left behind.                               *)
(***************************************************************************)
EXTENDS Integers, Sequences, FiniteSets, TLC

VARIABLES
    pc,         \* the statement about to run, or "exit" / "done" / "error"
    run,        \* number of the current run of the script
    dirExists,  \* whether /home/oai/share/epub_card_app exists
    disk,       \* the file sample.epub as a reader of the archive sees it
    fp,         \* the archive writer's file handle: "unopened", "open", "closed"
    filelist,   \* epub.filelist: the entries the writer has recorded
    attempts,   \* how often each statement was attempted in this run
    failedAt,   \* the statement that raised in this run, or "none"
    history     \* what a reader found after each earlier successful run

vars == <<pc, run, dirExists, disk, fp, filelist, attempts, failedAt, history>>

\* How many times the script is run one after the other.
MaxRuns == 2

None == "None"

-----------------------------------------------------------------------------
(* The literals of the script.                                             *)

MimetypeName == "mimetype"

ContainerName == "META-INF/container.xml"

\* The package document under another name than the container gives it.
OpfNameRenamed == "package.opf"

OpfName == "content.opf"

\* The chapter written under the name of the entry before it.
ChapterNameDuplicate == "content.opf"

ChapterName == "chapter1.xhtml"

\* The mimetype entry written deflated.
MimetypeCompressTypeDeflated == "ZIP_DEFLATED"

\* compress_type=zipfile.ZIP_STORED, given for the mimetype entry only
MimetypeCompressType == "ZIP_STORED"

MimetypeText ==
    "application/epub+zip"

ContainerText ==
    "<?xml version=\"1.0\"?>\n" \o
    "<container version=\"1.0\" xmlns=\"urn:oasis:names:tc:opendocument:xmlns:container\">\n" \o
    "   <rootfiles>\n" \o
    "      <rootfile full-path=\"content.opf\" media-type=\"application/oebps-package+xml\"/>\n" \o
    "   </rootfiles>\n" \o
    "</container>\n"

OpfText ==
    "<?xml version=\"1.0\" encoding=\"utf-8\"?>\n" \o
    "<package version=\"3.0\" xmlns=\"http://www.idpf.org/2007/opf\" unique-identifier=\"BookId\">\n" \o
    "  <metadata xmlns:dc=\"http://purl.org/dc/elements/1.1/\">\n" \o
    "    <dc:identifier id=\"BookId\">id12345</dc:identifier>\n" \o
    "    <dc:title>Sample Book</dc:title>\n" \o
    "    <dc:language>en</dc:language>\n" \o
    "  </metadata>\n" \o
    "  <manifest>\n" \o
    "    <item id=\"chapter1\" href=\"chapter1.xhtml\" media-type=\"application/xhtml+xml\"/>\n" \o
    "  </manifest>\n" \o
    "  <spine>\n" \o
    "    <itemref idref=\"chapter1\" />\n" \o
    "  </spine>\n" \o
    "</package>\n"

ChapterText ==
    "<?xml version=\"1.0\" encoding=\"utf-8\"?>\n" \o
    "<html xmlns=\"http://www.w3.org/1999/xhtml\" lang=\"en\">\n" \o
    "  <head><title>Chapter 1</title></head>\n" \o
    "  <body><p>Hello world! This is a simple EPUB test. It's long enough to check segmentation" \o
    " into 160 characters. Keep adding some text for test. Adding more sentences to exceed 160 " \o
    "characters. Another sentence to ensure enough content for multiple cards. And again some m" \o
    "ore filler text to complete the test of the card splitting algorithm. End.</p></body>\n" \o
    "</html>\n"

-----------------------------------------------------------------------------
(* Text and bytes.  writestr encodes a str argument as UTF-8 and a reader  *)
(* of the archive gets bytes back.  Every literal of the script is ASCII,  *)
(* where UTF-8 is one byte per character: the code point.                  *)

\* The printable ASCII characters with code points 32 to 95, in order.
PrintableLow ==
    " !\"#$%&'()*+,-./0123456789:;<=>?@ABCDEFGHIJKLMNOPQRSTUVWXYZ[\\]^_"

\* The printable ASCII characters with code points 97 to 126, in order.
PrintableHigh == "abcdefghijklmnopqrstuvwxyz{|}~"

CharAt(s, i) == SubSeq(s, i, i)

Chars(s) == {CharAt(s, i) : i \in 1..Len(s)}

PositionIn(s, c) == CHOOSE i \in 1..Len(s) : CharAt(s, i) = c

\* The character of a code point (a one-character string).
Chr(b) ==
    IF b = 10 THEN "\n"
    ELSE IF b < 96 THEN CharAt(PrintableLow, b - 31)
    ELSE CharAt(PrintableHigh, b - 96)

\* The code point of a character.
Ord ==
    [c \in Chars(PrintableLow) \cup Chars(PrintableHigh) \cup {"\n"} |->
        IF c = "\n" THEN 10
        ELSE IF c \in Chars(PrintableLow) THEN 31 + PositionIn(PrintableLow, c)
        ELSE 96 + PositionIn(PrintableHigh, c)]

\* str.encode("utf-8")
Encode(s) == [i \in 1..Len(s) |-> Ord[CharAt(s, i)]]

\* bytes.decode("utf-8")
RECURSIVE Decode(_)
Decode(b) ==
    IF Len(b) = 0 THEN ""
    ELSE IF Len(b) = 1 THEN Chr(b[1])
    ELSE LET h == Len(b) \div 2
         IN  Decode(SubSeq(b, 1, h)) \o Decode(SubSeq(b, h + 1, Len(b)))

-----------------------------------------------------------------------------
(* The library calls of the script, as the script uses them.               *)

\* os.makedirs(path, exist_ok=True): an existing directory is not an error;
\* a missing one is created, or the call raises.
makedirs(exists) == IF exists THEN {"ok"} ELSE {"ok", "raise"}

\* The archive opened in mode 'a': the entries of an archive that is already
\* there are kept, and the writes add to them.
ZipFileInitAppend(d) ==
    [disk     |-> [exists |-> TRUE, directory |-> FALSE, central |-> <<>>],
     filelist |-> IF d.exists /\ d.directory THEN d.central ELSE <<>>]

\* zipfile.ZipFile(path, 'w'): the file is created or truncated, and the
\* writer starts with no entries.
ZipFileInit(d) ==
    [disk     |-> [exists |-> TRUE, directory |-> FALSE, central |-> <<>>],
     filelist |-> <<>>]

\* The writer's compression when writestr is given none: ZipFile's default.
ZipFileCompression == "ZIP_STORED"

\* The ZipInfo that writestr records for arcname: the data is the UTF-8
\* encoding of the text, the compression is the one given, else the writer's.
ZipInfo(arcname, text, compress_type) ==
    [filename      |-> arcname,
     compress_type |-> IF compress_type = None THEN ZipFileCompression
                       ELSE compress_type,
     data          |-> Encode(text)]

\* A writestr that loses the last character of the text.
writestrTruncating(fl, arcname, text, compress_type) ==
    Append(fl, ZipInfo(arcname, SubSeq(text, 1, Len(text) - 1), compress_type))

\* epub.writestr(arcname, text, compress_type): one more entry, at the end.
writestr(fl, arcname, text, compress_type) ==
    Append(fl, ZipInfo(arcname, text, compress_type))

\* A writestr that raises while the data is written.  The entry is recorded
\* only if its header could still be rewritten, and then the file holds a
\* part of the data.
writestrRaised(fl, arcname, text, compress_type) ==
    LET zi == ZipInfo(arcname, text, compress_type)
    IN  {fl} \cup
        {Append(fl, [zi EXCEPT !.data = SubSeq(zi.data, 1, n)]) :
            n \in {0, Len(zi.data) \div 2}}

\* ZipFile.close(): the central directory is written from filelist.
WriteEndRecord(d, fl) ==
    [exists |-> TRUE, directory |-> TRUE, central |-> fl]

\* What a reader of the file finds: the entries of the central directory.
\* A missing file, or one without a directory, is no archive.
ReadBack(d) ==
    [ok      |-> d.exists /\ d.directory,
     entries |-> IF d.exists /\ d.directory THEN d.central ELSE <<>>]

namelist(fl) == [i \in 1..Len(fl) |-> fl[i].filename]

-----------------------------------------------------------------------------
(* Control flow.                                                           *)

\* The container written before the mimetype entry.
ScriptContainerFirst ==
    <<"makedirs", "open", "container", "mimetype", "opf", "chapter">>

\* The statements of the script, in program order.
Script == <<"makedirs", "open", "mimetype", "container", "opf", "chapter">>

\* The statements inside the with block.
WithBody == {"mimetype", "container", "opf", "chapter"}

Statements == {Script[i] : i \in 1..Len(Script)}

IndexOf(stmt) == CHOOSE i \in 1..Len(Script) : Script[i] = stmt

\* Where control goes when stmt returns: the next statement, and the end of
\* the with block after the last one.
Succ(stmt) ==
    IF IndexOf(stmt) = Len(Script) THEN "exit" ELSE Script[IndexOf(stmt) + 1]

\* The archive opened without a with block: an exception ends the script at once.
OnRaiseNoExit(stmt) == "error"

\* An exception outside the with block caught and ignored.
OnRaiseSwallowed(stmt) == IF stmt \in WithBody THEN "exit" ELSE Succ(stmt)

\* A statement that raised is tried again.
OnRaiseRetry(stmt) == stmt

\* Where control goes when stmt raises.  Nothing catches an exception: it
\* ends the script, through ZipFile.__exit__ if it is raised in the with block.
OnRaise(stmt) == IF stmt \in WithBody THEN "exit" ELSE "error"

\* The bookkeeping of one attempt of stmt with result r.
Step(stmt, r) ==
    /\ attempts' = [attempts EXCEPT ![stmt] = @ + 1]
    /\ failedAt' = IF r = "ok" THEN failedAt ELSE stmt
    /\ pc' = IF r = "ok" THEN Succ(stmt) ELSE OnRaise(stmt)

-----------------------------------------------------------------------------
(* The state before the first run: no archive yet; the directory may or    *)
(* may not be there.                                                       *)

NoFile == [exists |-> FALSE, directory |-> FALSE, central |-> <<>>]

Init ==
    /\ pc = Script[1]
    /\ run = 1
    /\ dirExists \in BOOLEAN
    /\ disk = NoFile
    /\ fp = "unopened"
    /\ filelist = <<>>
    /\ attempts = [s \in Statements |-> 0]
    /\ failedAt = "none"
    /\ history = <<>>

\* os.makedirs('/home/oai/share/epub_card_app', exist_ok=True)
Makedirs ==
    /\ pc = "makedirs"
    /\ \E r \in makedirs(dirExists) :
        /\ dirExists' = (dirExists \/ r = "ok")
        /\ Step("makedirs", r)
    /\ UNCHANGED <<run, disk, fp, filelist, history>>

\* with zipfile.ZipFile('/home/oai/share/epub_card_app/sample.epub', 'w') as epub:
Open ==
    /\ pc = "open"
    /\ \E r \in {"ok", "raise"} :
        /\ IF r = "ok"
           THEN /\ disk' = ZipFileInit(disk).disk
                /\ filelist' = ZipFileInit(disk).filelist
                /\ fp' = "open"
           ELSE UNCHANGED <<disk, filelist, fp>>
        /\ Step("open", r)
    /\ UNCHANGED <<run, dirExists, history>>

\* One writestr statement of the with block.
WriteStmt(stmt, arcname, text, compress_type) ==
    /\ fp = "open"
    /\ \/ /\ filelist' = writestr(filelist, arcname, text, compress_type)
          /\ Step(stmt, "ok")
       \/ /\ filelist' \in writestrRaised(filelist, arcname, text, compress_type)
          /\ Step(stmt, "raise")
    /\ UNCHANGED <<run, dirExists, disk, fp, history>>

\* epub.writestr('mimetype', 'application/epub+zip', compress_type=zipfile.ZIP_STORED)
WriteMimetype ==
    /\ pc = "mimetype"
    /\ WriteStmt("mimetype", MimetypeName, MimetypeText, MimetypeCompressType)

\* epub.writestr('META-INF/container.xml', ...)
WriteContainer ==
    /\ pc = "container"
    /\ WriteStmt("container", ContainerName, ContainerText, None)

\* epub.writestr('content.opf', ...)
WriteOpf ==
    /\ pc = "opf"
    /\ WriteStmt("opf", OpfName, OpfText, None)

\* epub.writestr('chapter1.xhtml', ...)
WriteChapter ==
    /\ pc = "chapter"
    /\ WriteStmt("chapter", ChapterName, ChapterText, None)

\* The end of the with block, ZipFile.__exit__: close() writes the central
\* directory and, whether or not that raises, closes the file.  An exception
\* of the block goes on after it.
Exit ==
    /\ pc = "exit"
    /\ fp' = "closed"
    /\ \/ /\ disk' = WriteEndRecord(disk, filelist)
          /\ pc' = IF failedAt = "none" THEN "done" ELSE "error"
          /\ UNCHANGED failedAt
       \/ /\ pc' = "error"
          /\ failedAt' = IF failedAt = "none" THEN "exit" ELSE failedAt
          /\ UNCHANGED disk
    /\ UNCHANGED <<run, dirExists, filelist, attempts, history>>

\* The script is run again, on the file system the last run left.
Rerun ==
    /\ pc \in {"done", "error"}
    /\ run < MaxRuns
    /\ run' = run + 1
    /\ pc' = Script[1]
    /\ fp' = "unopened"
    /\ filelist' = <<>>
    /\ attempts' = [s \in Statements |-> 0]
    /\ failedAt' = "none"
    /\ history' = IF pc = "done" THEN Append(history, ReadBack(disk)) ELSE history
    /\ UNCHANGED <<dirExists, disk>>

Next ==
    \/ Makedirs
    \/ Open
    \/ WriteMimetype
    \/ WriteContainer
    \/ WriteOpf
    \/ WriteChapter
    \/ Exit
    \/ Rerun

Spec == Init /\ [][Next]_vars

-----------------------------------------------------------------------------
(* What is claimed of the script.                                          *)

\* The script has run to its end and no statement raised.
Succeeded == pc = "done"

\* The archive a reader finds on disk.
Archive == ReadBack(disk).entries

\* The entries of the archive on disk that are named name.
Named(name) == {i \in 1..Len(Archive) : Archive[i].filename = name}

\* The text of the entry named name (of the first, if there are several).
TextOf(name) == Decode(Archive[CHOOSE i \in Named(name) : \A j \in Named(name) : i <= j].data)

IsPrefix(s, t) == Len(s) <= Len(t) /\ s = SubSeq(t, 1, Len(s))

\* The names of the four entries, in the order in which they are written.
EntryOrder ==
    <<"mimetype", "META-INF/container.xml", "content.opf", "chapter1.xhtml">>

\* The steps of a run, in order.
StepOrder == <<"makedirs", "open", "mimetype", "container", "opf", "chapter">>

\* C1: after a run that completes without error the archive holds exactly
\* four entries, named mimetype, META-INF/container.xml, content.opf and
\* chapter1.xhtml: none is missing, there is no other, no name occurs twice.
C1_ExactlyFourEntries ==
    Succeeded =>
        /\ ReadBack(disk).ok
        /\ Len(Archive) = 4
        /\ \A i \in 1..4 : Cardinality(Named(EntryOrder[i])) = 1

C1_Witness == Succeeded /\ run = 1 /\ Len(Archive) = 4

\* C2: after a successful run the mimetype entry is stored without
\* compression and its content is exactly application/epub+zip, with no
\* trailing newline or other bytes.
C2_MimetypeStored ==
    Succeeded =>
        /\ Named("mimetype") # {}
        /\ \A i \in Named("mimetype") :
            /\ Archive[i].compress_type = "ZIP_STORED"
            /\ Decode(Archive[i].data) = "application/epub+zip"
            /\ Len(Archive[i].data) = Len("application/epub+zip")
            /\ Archive[i].data[Len(Archive[i].data)] # 10

C2_Witness ==
    /\ Succeeded
    /\ \E i \in Named("mimetype") : Archive[i].compress_type = "ZIP_STORED"

\* C3: after a successful run the content read back for each of the four
\* entries is the literal given to its writestr call: nothing is altered,
\* truncated or swapped between names.
C3_ContentIsLiteral ==
    Succeeded =>
        \A p \in {<<"mimetype", MimetypeText>>,
                  <<"META-INF/container.xml", ContainerText>>,
                  <<"content.opf", OpfText>>,
                  <<"chapter1.xhtml", ChapterText>>} :
            /\ Named(p[1]) # {}
            /\ \A i \in Named(p[1]) : Decode(Archive[i].data) = p[2]

C3_Witness ==
    /\ Succeeded
    /\ \E i \in Named("chapter1.xhtml") : Len(Archive[i].data) = Len(ChapterText)

\* C4: when the script has ended, with or without an error, the archive
\* writer's handle is not open.
C4_HandleClosed == pc \in {"done", "error"} => fp # "open"

C4_Witness == pc = "error" /\ failedAt \in WithBody /\ fp = "closed"

\* C5: when the directory cannot be created, the script fails there: the
\* archive is never opened and no entry is written.
C5_MakedirsFailureStops ==
    failedAt = "makedirs" =>
        /\ pc = "error"
        /\ fp = "unopened"
        /\ filelist = <<>>
        /\ \A s \in {"open", "mimetype", "container", "opf", "chapter"} :
            attempts[s] = 0

C5_Witness == failedAt = "makedirs" /\ attempts["makedirs"] = 1

\* C6: no statement is attempted more than once in a run; once a statement
\* has raised, no later one is attempted and the run ends in error.
C6_NoRetryNoRecovery ==
    /\ \A s \in DOMAIN attempts : attempts[s] <= 1
    /\ \A i \in 1..Len(StepOrder) :
        failedAt = StepOrder[i] =>
            /\ \A j \in (i + 1)..Len(StepOrder) : attempts[StepOrder[j]] = 0
            /\ pc \in {"exit", "error"}
    /\ failedAt # "none" => pc # "done"
    /\ (failedAt # "none" /\ fp # "open") => pc = "error"

C6_Witness ==
    /\ pc = "error"
    /\ failedAt = "container"
    /\ attempts["mimetype"] = 1
    /\ attempts["opf"] = 0

\* C7: the steps run in one fixed order, and at all times the entries of the
\* archive, in the writer and on disk, are a prefix of mimetype,
\* META-INF/container.xml, content.opf, chapter1.xhtml.
C7_FixedOrder ==
    /\ \A i \in 2..Len(StepOrder) :
        attempts[StepOrder[i]] > 0 => attempts[StepOrder[i - 1]] > 0
    /\ IsPrefix(namelist(filelist), EntryOrder)
    /\ IsPrefix(namelist(disk.central), EntryOrder)
    /\ Len(filelist) > 0 => filelist[1].filename = "mimetype"

C7_Witness == pc = "opf" /\ Len(filelist) = 2 /\ run = 2 /\ Len(history) = 1

\* The value of the first attribute that marker (the text up to and with the
\* opening quote) starts in text; None if there is none.
AttrValue(text, marker) ==
    LET n      == Len(marker)
        starts == {i \in 1..(Len(text) - n + 1) : SubSeq(text, i, i + n - 1) = marker}
    IN  IF starts = {} THEN None
        ELSE LET from == n + (CHOOSE i \in starts : \A j \in starts : i <= j)
                 ends == {k \in from..Len(text) : CharAt(text, k) = "\""}
             IN  IF ends = {} THEN None
                 ELSE SubSeq(text, from, (CHOOSE k \in ends : \A m \in ends : k <= m) - 1)

\* C8: the archive of a successful run is consistent as an EPUB: the rootfile
\* of the container (content.opf) and the href of the manifest item
\* (chapter1.xhtml) name entries of the archive, the spine's idref (chapter1)
\* is the id of the manifest item, and the package's unique-identifier
\* (BookId) is the id of the dc:identifier element.
C8_EpubConsistent ==
    Succeeded =>
        /\ Named("META-INF/container.xml") # {}
        /\ AttrValue(TextOf("META-INF/container.xml"), "<rootfile full-path=\"") = "content.opf"
        /\ Named("content.opf") # {}
        /\ LET opf == TextOf("content.opf")
           IN  /\ AttrValue(opf, "href=\"") = "chapter1.xhtml"
               /\ Named(AttrValue(opf, "href=\"")) # {}
               /\ AttrValue(opf, "<itemref idref=\"") = "chapter1"
               /\ AttrValue(opf, "<item id=\"") = AttrValue(opf, "<itemref idref=\"")
               /\ AttrValue(opf, "unique-identifier=\"") = "BookId"
               /\ AttrValue(opf, "<dc:identifier id=\"") = AttrValue(opf, "unique-identifier=\"")

C8_Witness ==
    /\ Succeeded
    /\ Named("content.opf") # {}
    /\ Named(AttrValue(TextOf("content.opf"), "href=\"")) # {}

\* C9: running the script again is harmless: makedirs does not fail on a
\* directory that exists, and a later successful run leaves the archive that
\* an earlier successful run left, nothing appended, nothing twice.
C9_Idempotent ==
    /\ failedAt = "makedirs" => ~dirExists
    /\ Succeeded => \A i \in 1..Len(history) : ReadBack(disk) = history[i]

C9_Witness == Succeeded /\ run = 2 /\ Len(history) = 1 /\ Len(Archive) = 4

====
